---------------------------- MODULE Spec2Model ----------------------------
(***************************************************************************)
(* Model of the linkup-go client (src/linkup/types.go): the retry loop of  *)
(* Client.Search, the backoff policy with its process-wide LCG jitter      *)
(* source, and the functional options of NewClient.                        *)
(*                                                                         *)
(* Scaling.  time.Duration is an int64 count of nanoseconds and lcg is a   *)
(* uint64.  Here a duration is a signed DurBits-bit count of 50 ms units   *)
(* (so time.Second is 20 units, the default backoffs 250 ms and 4 s are 5  *)
(* and 80) and lcg is an unsigned LcgBits-bit word; both wrap exactly as   *)
(* the Go integers do, at a width the model checker can enumerate.  The    *)
(* Go int parsed by strconv.Atoi has the same width as time.Duration on    *)
(* the 64-bit targets, hence IntMax below.  The float64 product in backoff *)
(* is modelled as the exact rational product truncated toward zero.        *)
(***************************************************************************)
EXTENDS Integers, Sequences, FiniteSets, TLC

VARIABLES
    \* ---- the client (type Client) ----
    apiKey, baseURL, ua, httpClient, maxRetries, minBackoff, maxBackoff,
    optsApplied,   \* number of options NewClient has applied so far
    \* ---- one Search call ----
    pc,            \* "start" | "inflight" | "sleep" | "done"
    attempt,       \* loop variable of Search
    calls,         \* invocations of c.http.Do by this call
    sleeps,        \* retry-delay sleeps begun by this call
    sleepDur,      \* argument of the last time.Sleep
    res,           \* what the last c.http.Do returned
    hist,          \* outcome of each c.http.Do so far: status, NetErr or CtxErr
    ret,           \* what Search returned (valid when pc = "done")
    ctxDone,       \* the caller's context is cancelled / past its deadline
    cancelAt,      \* where the call was when the context fired
    callsAtCancel, \* value of calls when the context fired
    sleepsAtCancel,\* value of sleeps when the context fired
    \* ---- which operation the call is, and what follows it ----
    op,            \* "Search" | "Fetch" | "GetBalance"
    fetchURL,      \* FetchRequest.URL
    decoded,       \* outcome of DecodeInto on the returned payload
    \* ---- response bodies of the call ----
    opened,        \* responses received, each with an open Body
    deferred,      \* res.Body.Close() calls deferred so far
    closed,        \* bodies closed by the deferred calls at return
    \* ---- package-level jitter state (var lcg) ----
    lcg,
    \* ---- what went over the wire during the call ----
    sent,          \* the request handed to each c.http.Do, in order
    inspected,     \* statuses of the responses whose error body was read
    \* ---- a direct application of backoff ----
    bArgs, bOut,
    rOut,          \* lcg before the last randFloat call, and its result
    uArg,          \* the argument of the last WithBaseURL
    \* ---- goroutines racing in randFloat ----
    gpc, greg, gret, gcalls, seed0, stores

clientVars ==
    <<apiKey, baseURL, ua, httpClient, maxRetries, minBackoff, maxBackoff, optsApplied>>
callVars   == <<pc, attempt, calls, sleeps, sleepDur, res, hist, ret>>
ctxVars    == <<ctxDone, cancelAt, callsAtCancel, sleepsAtCancel>>
pureVars   == <<bArgs, bOut, rOut, uArg>>
raceVars   == <<gpc, greg, gret, gcalls, seed0, stores>>
opVars     == <<op, fetchURL, decoded>>
bodyVars   == <<opened, deferred, closed>>
wireVars   == <<sent, inspected>>
vars ==
    <<clientVars, callVars, ctxVars, lcg, pureVars, raceVars, opVars, bodyVars,
      wireVars>>

-----------------------------------------------------------------------------
(* Bounds of the model *)

DurBits == 10          \* width of the scaled time.Duration / int
LcgBits == 14          \* width of the scaled lcg word
MaxRetriesBound == 2   \* largest maxRetries a Search is run with
MaxOpts == 2           \* options passed to one NewClient
MaxRandCalls == 2      \* randFloat calls per goroutine
MaxLiveRetries == 1    \* largest maxRetries of the calls checked for termination

(* Program constants, in the scaled units *)

Second == 20               \* time.Second, in 50 ms units
DefaultMaxRetries == 3
DefaultMinBackoff == 5     \* 250 * time.Millisecond
DefaultMaxBackoff == 80    \* 4 * time.Second
LcgMul == 129020157        \* 2862933555777941757 mod 2^30
LcgInc == 889516845        \* 3037000493 mod 2^30
RandMod == 10000
ErrBodyLimit == 4          \* 1<<20 bytes, in tokens
StatusTooManyRequests == 429
StatusUnauthorized == 401
StatusForbidden == 403

\* defaultBaseURL and defaultUA; a URL is a sequence of one-character strings
\* (the host abbreviated to one character)
defaultBaseURL == <<"h", "/", "v", "1">>
defaultUA == "linkup-go/0.1"

NetErr == 0     \* hist entry: c.http.Do failed with a network error
CtxErr == -1    \* hist entry: c.http.Do failed with the context's error

-----------------------------------------------------------------------------
(* Integer arithmetic of the Go types *)

Pow2(n) == 2 ^ n

DurMod == Pow2(DurBits)
IntMax == Pow2(DurBits - 1) - 1
IntMin == 0 - Pow2(DurBits - 1)

\* two's complement wrap-around of a signed DurBits-bit integer
Wrap(x) ==
    LET m == x % DurMod
    IN IF m > IntMax THEN m - DurMod ELSE m

MinOf(a, b) == IF a < b THEN a ELSE b

\* Go's integer division and float-to-int conversion truncate toward zero
TruncDiv(a, b) == IF a >= 0 THEN a \div b ELSE 0 - ((0 - a) \div b)

-----------------------------------------------------------------------------
(* randFloat and backoff *)

LcgMod == Pow2(LcgBits)

\* lcg = lcg*2862933555777941757 + 3037000493, in the width of the word
LcgNext(x) == (x * (LcgMul % LcgMod) + (LcgInc % LcgMod)) % LcgMod

RandNumNoMod(x) == x

\* randFloat's result float64(lcg%10000) / 10000.0, as its numerator over
\* RandMod; x is the value of lcg after the update
RandNum(x) == x % RandMod

\* the jitter multiplier 0.8 + 0.4*randFloat(), as its numerator over
\* 10*RandMod
JitterNum(rnd) == 8 * RandMod + 4 * rnd

\* 1 << attempt in the type of min (time.Duration): a shift by the width or
\* more gives 0, a shift by width-1 gives the most negative value
Shl1(n) == IF n >= DurBits THEN 0 ELSE Wrap(Pow2(n))

backoffBase(n, min, max) ==
    LET d == Wrap(min * Shl1(n))
    IN IF d > max THEN max ELSE d

\* backoff(attempt, min, max) with rnd the numerator randFloat returned:
\* time.Duration(float64(d) * (0.8 + 0.4*rnd/10000))
backoff(n, min, max, rnd) ==
    TruncDiv(backoffBase(n, min, max) * JitterNum(rnd), 10 * RandMod)

-----------------------------------------------------------------------------
(* strconv.Atoi on the Retry-After header; a string is a sequence of       *)
(* one-character strings                                                   *)

Digits == {"0", "1", "2", "3", "4", "5", "6", "7", "8", "9"}

DigitVal(c) ==
    CASE c = "0" -> 0 [] c = "1" -> 1 [] c = "2" -> 2 [] c = "3" -> 3
      [] c = "4" -> 4 [] c = "5" -> 5 [] c = "6" -> 6 [] c = "7" -> 7
      [] c = "8" -> 8 [] c = "9" -> 9

RECURSIVE DecVal(_)
DecVal(s) ==
    IF s = <<>> THEN 0
    ELSE 10 * DecVal(SubSeq(s, 1, Len(s) - 1)) + DigitVal(s[Len(s)])

\* [ok, val]: ok is err == nil.  Atoi takes an optional sign and decimal
\* digits, and reports a range error outside the int type.
Atoi(s) ==
    LET signed == s # <<>> /\ s[1] \in {"+", "-"}
        ds     == IF signed THEN Tail(s) ELSE s
        wellformed == ds # <<>> /\ \A i \in 1..Len(ds) : ds[i] \in Digits
        v      == IF wellformed
                  THEN (IF signed /\ s[1] = "-" THEN 0 - DecVal(ds) ELSE DecVal(ds))
                  ELSE 0
    IN IF wellformed /\ v >= IntMin /\ v <= IntMax
       THEN [ok |-> TRUE, val |-> v]
       ELSE [ok |-> FALSE, val |-> 0]

\* time.Duration(secs) * time.Second
SecondsToDuration(secs) == Wrap(secs * Second)

\* the delay slept before a retry of a 429/5xx response (types.go 220-228);
\* rnd is consulted only on the backoff branches
retryDelay(ra, n, min, max, rnd) ==
    IF ra # <<>>
    THEN IF Atoi(ra).ok /\ Atoi(ra).val > 0
         THEN SecondsToDuration(Atoi(ra).val)
         ELSE backoff(n, min, max, rnd)
    ELSE backoff(n, min, max, rnd)

\* whether that delay calls backoff, and with it randFloat
retryUsesBackoff(ra) == ~(ra # <<>> /\ Atoi(ra).ok /\ Atoi(ra).val > 0)

-----------------------------------------------------------------------------
(* The error body and json.Unmarshal into *APIError.  A body is a sequence *)
(* of tokens; a JSON object is "{", fields, "}".                           *)

Tok(k, s, n) == [k |-> k, s |-> s, n |-> n]
LB == Tok("{", "", 0)
RB == Tok("}", "", 0)
Junk == Tok("junk", "", 0)
MsgField(m) == Tok("message", m, 0)
StatusField(n) == Tok("status", "", n)
DetailsField(d) == Tok("details", d, 0)
OtherField == Tok("other", "", 0)
BalanceField(n) == Tok("balance", "", n)

FieldKeys == {"message", "status", "details", "other", "balance"}

\* io.ReadAll(io.LimitReader(res.Body, 1<<20))
LimitRead(b) == SubSeq(b, 1, MinOf(Len(b), ErrBodyLimit))

ValidJSONObject(b) ==
    /\ Len(b) >= 2
    /\ b[1] = LB
    /\ b[Len(b)] = RB
    /\ \A i \in 2..(Len(b) - 1) : b[i].k \in FieldKeys

RECURSIVE ApplyFields(_, _)
ApplyFields(fs, e) ==
    IF fs = <<>> THEN e
    ELSE LET f == Head(fs)
             e1 == CASE f.k = "message" -> [e EXCEPT !.Message = f.s]
                     [] f.k = "status"  -> [e EXCEPT !.Status = f.n]
                     [] f.k = "details" -> [e EXCEPT !.Details = f.s]
                     [] OTHER           -> e
         IN ApplyFields(Tail(fs), e1)

\* json.Unmarshal(b, apiErr): the input is validated first and apiErr is
\* left as it was when b is not valid JSON; the error is discarded
Unmarshal(b, e) ==
    IF ValidJSONObject(b) THEN ApplyFields(SubSeq(b, 2, Len(b) - 1), e) ELSE e

DecodeAPIErrorReused(status, body) ==
    Unmarshal(LimitRead(body), [Status |-> status, Message |-> "earlier", Details |-> ""])

\* apiErr := &APIError{Status: res.StatusCode}; json.Unmarshal(b, apiErr)
DecodeAPIError(status, body) ==
    Unmarshal(LimitRead(body), [Status |-> status, Message |-> "", Details |-> ""])

-----------------------------------------------------------------------------
(* Classification of a response by Search *)

IsSuccess(status) == ~(status < 200 \/ status >= 300)

ShouldRetryAlso401(status) ==
    status = StatusTooManyRequests \/ (status >= 500 /\ status <= 599)
      \/ status = StatusUnauthorized \/ status = StatusForbidden

ShouldRetryClientErrors(status) == status >= 400

ShouldRetryEveryError(status) == TRUE

ShouldRetryOnly429(status) == status = StatusTooManyRequests

\* shouldRetry := res.StatusCode == 429 || (res.StatusCode >= 500 && <= 599)
ShouldRetry(status) ==
    status = StatusTooManyRequests \/ (status >= 500 /\ status <= 599)

AttemptsRemainOffByOne(n, retries) == n <= retries

\* attempt < retries
AttemptsRemain(n, retries) == n < retries

-----------------------------------------------------------------------------
(* Inputs: what the transport can answer *)

Statuses == {200, 204, 301, 401, 403, 422, 429, 502, 599}

RetryAfters ==
    { <<>>, <<"0">>, <<"2">>, <<"-", "1">>, <<"a">>, <<"3", "0">> }

Bodies ==
    { <<>>,
      <<Junk>>,
      <<LB, MsgField("bad param"), RB>>,
      <<LB, StatusField(500), MsgField("boom"), RB>>,
      <<LB, OtherField, OtherField, OtherField, MsgField("late"), RB>>,
      <<LB, MsgField(""), RB>>,
      <<LB, StatusField(500), RB>>,
      <<LB, BalanceField(7), RB>> }

Resp(st, ra, b, f) ==
    [err |-> "nil", status |-> st, retryAfter |-> ra, body |-> b, readFail |-> f]

\* c.http.Do returned (nil, err)
ErrRes(e) ==
    [err |-> e, status |-> 0, retryAfter |-> <<>>, body |-> <<>>, readFail |-> FALSE]

NoRes == ErrRes("none")

\* a response is a status, a Retry-After header (<<>> when absent) and a body
\* stream; readFail says the stream ends in a read error after body
Responses ==
    { Resp(st, ra, b, f) :
        st \in Statuses, ra \in RetryAfters, b \in Bodies, f \in BOOLEAN }

Seeds == {1, 9999}

BackoffPairs == { <<DefaultMinBackoff, DefaultMaxBackoff>>, <<2, 3>> }

-----------------------------------------------------------------------------
(* Client.Search *)

\* result of a direct backoff call: the attempt index it was given and the
\* delay it returned (n = -1: no call yet)
NoOut == [n |-> 0 - 1, d |-> 0]

\* what an operation returns: the error (its kind and, for *APIError, its
\* fields) and the payload, SearchResponse.Raw or BalanceResponse.Balance
Ret(e, st, msg, det, raw) ==
    [err |-> e, status |-> st, message |-> msg, details |-> det, raw |-> raw,
     balance |-> 0]

NoRet == Ret("none", 0, "", "", <<>>)

\* return SearchResponse{}, err
RetErr(e) == Ret(e, 0, "", "", <<>>)

TerminalErrorNoDecode(status, body) ==
    CASE status = StatusUnauthorized -> RetErr("ErrUnauthorized")
      [] status = StatusForbidden    -> RetErr("ErrForbidden")
      [] OTHER                       -> Ret("HTTPStatus", status, "", "", <<>>)

TerminalErrorKeepsHTTPStatus(status, body) ==
    LET apiErr == DecodeAPIError(status, body)
    IN CASE status = StatusUnauthorized -> RetErr("ErrUnauthorized")
         [] status = StatusForbidden    -> RetErr("ErrForbidden")
         [] OTHER ->
              IF apiErr.Message # ""
              THEN Ret("APIError", status, apiErr.Message, apiErr.Details, <<>>)
              ELSE Ret("HTTPStatus", status, "", "", <<>>)

TerminalErrorAlwaysStructured(status, body) ==
    LET apiErr == DecodeAPIError(status, body)
    IN CASE status = StatusUnauthorized -> RetErr("ErrUnauthorized")
         [] status = StatusForbidden    -> RetErr("ErrForbidden")
         [] OTHER ->
              IF ValidJSONObject(LimitRead(body))
              THEN Ret("APIError", apiErr.Status, apiErr.Message, apiErr.Details, <<>>)
              ELSE Ret("HTTPStatus", status, "", "", <<>>)

TransportFailureWrapped(e) == Ret("APIError", 0, e, "", <<>>)

\* return nil, err with the error c.http.Do returned (types.go 204)
TransportFailure(e) == RetErr(e)

\* the switch on res.StatusCode once no retry is taken (types.go 232-242)
TerminalError(status, body) ==
    LET apiErr == DecodeAPIError(status, body)
    IN CASE status = StatusUnauthorized -> RetErr("ErrUnauthorized")
         [] status = StatusForbidden    -> RetErr("ErrForbidden")
         [] OTHER ->
              IF apiErr.Message # ""
              THEN Ret("APIError", apiErr.Status, apiErr.Message, apiErr.Details, <<>>)
              ELSE Ret("HTTPStatus", status, "", "", <<>>)

RECURSIVE CopyBytes(_)
\* append([]byte(nil), b...)
CopyBytes(b) == IF b = <<>> THEN <<>> ELSE <<Head(b)>> \o CopyBytes(Tail(b))

SuccessPayloadLimited(b) == CopyBytes(LimitRead(b))

\* the Raw of the SearchResponse returned for the bytes io.ReadAll read
SuccessPayload(b) == CopyBytes(b)

SuccessResultValidates(r) ==
    IF r.readFail THEN RetErr("read")
    ELSE IF ~ValidJSONObject(r.body) THEN RetErr("decode")
    ELSE Ret("nil", 0, "", "", SuccessPayload(r.body))

\* types.go 245-250 (344 in Fetch): b, err := io.ReadAll(res.Body) and the
\* return that follows
SuccessResult(r) ==
    IF r.readFail THEN RetErr("read")
    ELSE Ret("nil", 0, "", "", SuccessPayload(r.body))

DeferCloseSkipRetried(d, retried) == IF retried THEN d ELSE d + 1

\* defer res.Body.Close(), reached for every response before it is
\* classified; retried says the iteration ends in continue
DeferClose(d, retried) == d + 1

\* the endpoint paths "/search", "/fetch" and "/credits/balance", each name
\* abbreviated to one character
SearchPath == <<"/", "s">>
FetchPath == <<"/", "f">>
BalancePath == <<"/", "c">>

\* url := c.baseURL + path
RequestURL(base, path) == base \o path

\* body, err := json.Marshal(req): the JSON text of the SearchRequest
SearchBody == <<LB, OtherField, RB>>

\* the JSON text of the FetchRequest with its URL
FetchBody(u) == <<LB, Tok("other", u, 0), RB>>

BodyReaderShared(body, n) ==
    [data |-> body, off |-> IF n = 0 THEN 0 ELSE Len(body)]

\* bytes.NewReader(body), made anew in iteration n: all of body is unread
BodyReader(body, n) == [data |-> body, off |-> 0]

\* types.go 188-194: http.NewRequestWithContext and the three headers
SearchRequestOf(n) ==
    [method |-> "POST", url |-> RequestURL(baseURL, SearchPath),
     auth |-> <<"Bearer ", apiKey>>, ctype |-> "application/json",
     ua |-> ua, body |-> BodyReader(SearchBody, n)]

\* types.go 311-317
FetchRequestOf ==
    [method |-> "POST", url |-> RequestURL(baseURL, FetchPath),
     auth |-> <<"Bearer ", apiKey>>, ctype |-> "application/json",
     ua |-> ua, body |-> BodyReader(FetchBody(fetchURL), 0)]

\* types.go 358-363: a GET with a nil body and no Content-Type
BalanceRequestOf ==
    [method |-> "GET", url |-> RequestURL(baseURL, BalancePath),
     auth |-> <<"Bearer ", apiKey>>, ctype |-> "",
     ua |-> ua, body |-> BodyReader(<<>>, 0)]

\* types.go 210-214: Search reads and parses the body of every response
\* outside [200,300), before it looks at the status any further
SearchInspects(status) == ~IsSuccess(status)

\* types.go 325-334 and 371-380: Fetch and GetBalance return for 401 and
\* 403 first and read the body of the other responses outside [200,300)
AuthFirstInspects(status) ==
    /\ status # StatusUnauthorized
    /\ status # StatusForbidden
    /\ ~IsSuccess(status)

\* types.go 176-196: the key check, then the first c.http.Do
SearchStart ==
    /\ op = "Search"
    /\ pc = "start"
    /\ IF apiKey = ""
       THEN /\ pc' = "done"
            /\ ret' = RetErr("ErrAPIKeyEmpty")
            /\ UNCHANGED <<attempt, calls, sent>>
       ELSE /\ pc' = "inflight"
            /\ attempt' = 0
            /\ calls' = calls + 1
            /\ ret' = ret
            /\ sent' = Append(sent, SearchRequestOf(0))
    /\ UNCHANGED <<sleeps, sleepDur, res, hist>>
    /\ UNCHANGED <<clientVars, ctxVars, lcg, pureVars, raceVars, opVars, bodyVars,
                 inspected>>

\* types.go 196-205: c.http.Do returns an error; with the context done the
\* error is the context's
DoFails ==
    /\ op = "Search"
    /\ pc = "inflight"
    /\ LET e == IF ctxDone THEN "ctx" ELSE "net"
       IN /\ res' = ErrRes(e)
          /\ hist' = Append(hist, IF ctxDone THEN CtxErr ELSE NetErr)
          /\ IF AttemptsRemain(attempt, maxRetries)
             THEN /\ lcg' = LcgNext(lcg)
                  /\ sleepDur' = backoff(attempt, minBackoff, maxBackoff, RandNum(lcg'))
                  /\ sleeps' = sleeps + 1
                  /\ pc' = "sleep"
                  /\ ret' = ret
             ELSE /\ pc' = "done"
                  /\ ret' = TransportFailure(e)
                  /\ UNCHANGED <<lcg, sleepDur, sleeps>>
    \* the deferred Close calls run when Search returns
    /\ closed' = IF AttemptsRemain(attempt, maxRetries) THEN closed ELSE deferred
    /\ UNCHANGED <<attempt, calls, opened, deferred>>
    /\ UNCHANGED <<clientVars, ctxVars, pureVars, raceVars, opVars, wireVars>>

\* types.go 207-250: c.http.Do returns a response
DoResponds ==
    /\ op = "Search"
    /\ pc = "inflight"
    /\ ~ctxDone
    /\ \E r \in Responses :
         /\ hist' = Append(hist, r.status)
         /\ opened' = opened + 1
         /\ inspected' = IF SearchInspects(r.status)
                          THEN Append(inspected, r.status) ELSE inspected
         /\ deferred' = DeferClose(deferred,
                           ~IsSuccess(r.status) /\ ShouldRetry(r.status)
                             /\ AttemptsRemain(attempt, maxRetries))
         /\ IF ~IsSuccess(r.status)
            THEN IF ShouldRetry(r.status) /\ AttemptsRemain(attempt, maxRetries)
                 THEN /\ lcg' = IF retryUsesBackoff(r.retryAfter)
                                THEN LcgNext(lcg) ELSE lcg
                      /\ sleepDur' = retryDelay(r.retryAfter, attempt, minBackoff,
                                                maxBackoff, RandNum(lcg'))
                      /\ sleeps' = sleeps + 1
                      /\ pc' = "sleep"
                      \* b and apiErr are locals of the iteration left by continue
                      /\ res' = [r EXCEPT !.body = <<>>, !.readFail = FALSE]
                      /\ ret' = ret
                      /\ closed' = closed
                 ELSE /\ pc' = "done"
                      /\ res' = r
                      /\ ret' = TerminalError(r.status, r.body)
                      /\ closed' = deferred'
                      /\ UNCHANGED <<lcg, sleepDur, sleeps>>
            ELSE /\ pc' = "done"
                 /\ res' = r
                 /\ ret' = SuccessResult(r)
                 /\ closed' = deferred'
                 /\ UNCHANGED <<lcg, sleepDur, sleeps>>
    /\ UNCHANGED <<attempt, calls>>
    /\ UNCHANGED <<clientVars, ctxVars, pureVars, raceVars, opVars, sent>>

SleepElapsesIfPositive(d) == d > 0

\* time.Sleep(d) returns once d has passed, and at once when d <= 0
SleepElapses(d) == TRUE

\* time.Sleep returns, continue: attempt++ and the next c.http.Do
SleepReturns ==
    /\ pc = "sleep"
    /\ SleepElapses(sleepDur)
    /\ pc' = "inflight"
    /\ attempt' = attempt + 1
    /\ calls' = calls + 1
    /\ sent' = Append(sent, SearchRequestOf(attempt + 1))
    /\ UNCHANGED <<sleeps, sleepDur, res, hist, ret>>
    /\ UNCHANGED <<clientVars, ctxVars, lcg, pureVars, raceVars, opVars, bodyVars,
                 inspected>>

\* the caller's context is cancelled or its deadline passes while the call
\* waits for the transport or sleeps
ContextDone ==
    /\ ~ctxDone
    /\ pc \in {"inflight", "sleep"}
    /\ ctxDone' = TRUE
    /\ cancelAt' = pc
    /\ callsAtCancel' = calls
    /\ sleepsAtCancel' = sleeps
    /\ UNCHANGED <<clientVars, callVars, lcg, pureVars, raceVars, opVars, bodyVars,
                 wireVars>>

NoRand == [prev |-> 0, num |-> 0 - 1]
PureIdle == /\ bArgs = <<0, 0, 0>> /\ bOut = NoOut /\ rOut = NoRand /\ uArg = <<>>
RaceIdle ==
    /\ gpc = <<>> /\ greg = <<>> /\ gret = <<>> /\ gcalls = <<>>
    /\ seed0 = 0 /\ stores = 0
ClientIdle ==
    /\ apiKey = "test-key"
    /\ baseURL = defaultBaseURL
    /\ ua = defaultUA
    /\ httpClient = "default"
    /\ maxRetries = DefaultMaxRetries
    /\ minBackoff = DefaultMinBackoff
    /\ maxBackoff = DefaultMaxBackoff
    /\ optsApplied = 0
CallIdle ==
    /\ pc = "start" /\ attempt = 0 /\ calls = 0 /\ sleeps = 0 /\ sleepDur = 0
    /\ res = NoRes /\ hist = <<>> /\ ret = NoRet
CtxIdle ==
    /\ ctxDone = FALSE /\ cancelAt = "none" /\ callsAtCancel = 0
    /\ sleepsAtCancel = 0
BodyIdle == opened = 0 /\ deferred = 0 /\ closed = 0
WireIdle == sent = <<>> /\ inspected = <<>>
OpIdle == op = "Search" /\ fetchURL = "" /\ decoded = "none"

\* a client as NewClient returns it, and a process whose lcg has any value
Init ==
    /\ apiKey \in {"", "test-key"}
    /\ baseURL = defaultBaseURL
    /\ ua = defaultUA
    /\ httpClient = "default"
    /\ maxRetries \in 0..MaxRetriesBound
    /\ \E p \in BackoffPairs : minBackoff = p[1] /\ maxBackoff = p[2]
    /\ optsApplied = 0
    /\ lcg \in Seeds
    /\ CallIdle /\ CtxIdle /\ PureIdle /\ RaceIdle /\ OpIdle /\ BodyIdle
    /\ WireIdle

Next ==
    \/ SearchStart
    \/ DoFails
    \/ DoResponds
    \/ SleepReturns
    \/ ContextDone

Spec == Init /\ [][Next]_vars

-----------------------------------------------------------------------------
(* Properties of Client.Search *)

Last(q) == q[Len(q)]

\* the statuses the specification calls retryable
RetryableStatus(x) == x = 429 \/ (x >= 500 /\ x <= 599)

RetryableFailure(x) == x = NetErr \/ x = CtxErr \/ RetryableStatus(x)

TransportError(x) == x = NetErr \/ x = CtxErr

AllOf(q, P(_)) == \A i \in 1..Len(q) : P(q[i])

\* the non-empty messages a complete JSON error object within the read
\* limit carries
BodyMessages(b) ==
    IF Len(b) <= ErrBodyLimit /\ ValidJSONObject(b)
    THEN { b[i].s : i \in { j \in 1..Len(b) : b[j].k = "message" /\ b[j].s # "" } }
    ELSE {}

\* C1: a Search call on a client with maxRetries = R invokes the transport
\* at most R+1 times, whatever the transport answers.
C1_AttemptsBounded == calls <= maxRetries + 1

C1_Witness ==
    /\ pc = "done"
    /\ maxRetries = MaxRetriesBound
    /\ calls = maxRetries + 1
    /\ hist[1] = NetErr
    /\ hist[2] = 429

\* C2: an attempt answered 401 (403) is the last one: Search returns
\* ErrUnauthorized (ErrForbidden) with no sleep after it and no further
\* attempt, whatever maxRetries is; a first answer of 401 means one call.
C2_AuthNeverRetried ==
    \A i \in 1..Len(hist) :
        hist[i] \in {401, 403} =>
            /\ i = Len(hist)
            /\ pc = "done"
            /\ calls = i
            /\ sleeps = i - 1
            /\ ret = RetErr(IF hist[i] = 401 THEN "ErrUnauthorized" ELSE "ErrForbidden")

C2_Witness ==
    /\ pc = "done"
    /\ maxRetries = MaxRetriesBound
    /\ hist = <<401>>
    /\ calls = 1
    /\ ret.err = "ErrUnauthorized"

\* C3: while the first k <= maxRetries answers are retryable statuses the
\* call goes on to attempt k+1, and when that attempt is answered 2xx with a
\* readable body Search returns success with that body after exactly k+1
\* attempts.
C3_SuccessAfterRetries ==
    /\ (hist # <<>> /\ AllOf(hist, RetryableStatus) /\ Len(hist) <= maxRetries)
          => (pc \in {"sleep", "inflight"} /\ calls \in {Len(hist), Len(hist) + 1})
    /\ ( /\ hist # <<>>
         /\ AllOf(SubSeq(hist, 1, Len(hist) - 1), RetryableStatus)
         /\ Last(hist) >= 200 /\ Last(hist) < 300
         /\ ~res.readFail )
          => /\ pc = "done"
             /\ ret.err = "nil"
             /\ ret.raw = res.body
             /\ calls = Len(hist)

C3_Witness ==
    /\ pc = "done"
    /\ hist = <<502, 502, 200>>
    /\ ret.err = "nil"
    /\ ret.raw = <<LB, MsgField("bad param"), RB>>
    /\ calls = 3

\* C4: when every attempt ends in a retryable failure (transport error, 429
\* or 5xx) Search makes exactly maxRetries+1 attempts and then returns an
\* error with an empty payload: the transport's error, or for a final 429/5xx
\* the structured error carrying the message of that response's body, or the
\* generic HTTP-status error when the body offers no message.
C4_ExhaustedRetries ==
    (hist # <<>> /\ AllOf(hist, RetryableFailure)) =>
        /\ Len(hist) <= maxRetries + 1
        /\ Len(hist) <= maxRetries => pc \in {"sleep", "inflight"}
        /\ Len(hist) = maxRetries + 1 =>
             /\ pc = "done"
             /\ calls = maxRetries + 1
             /\ ret.raw = <<>>
             /\ IF TransportError(Last(hist))
                THEN ret.err = res.err /\ ret.err \in {"net", "ctx"}
                ELSE IF BodyMessages(res.body) # {}
                     THEN ret.err = "APIError" /\ ret.message \in BodyMessages(res.body)
                     ELSE ret = Ret("HTTPStatus", Last(hist), "", "", <<>>)

C4_Witness ==
    /\ pc = "done"
    /\ maxRetries = 2
    /\ hist = <<NetErr, 429, 502>>
    /\ ret.err = "APIError"
    /\ ret.message = "bad param"

\* C5: once the context fires while an attempt is in flight, Search sends
\* no further attempt, starts no retry-delay sleep, and returns a
\* cancellation error.
C5_NoWorkAfterDeadline ==
    cancelAt = "inflight" =>
        /\ calls = callsAtCancel
        /\ sleeps = sleepsAtCancel
        /\ pc = "done" => ret.err = "ctx"

\* C6: once the context fires during a retry-delay sleep, the sleep is
\* abandoned: no next attempt is sent and Search returns a cancellation
\* error.
C6_SleepAborted ==
    cancelAt = "sleep" =>
        /\ calls = callsAtCancel
        /\ pc = "done" => ret.err = "ctx"

\* C7: the delay slept after a 429/5xx answer to attempt n < maxRetries is
\* exactly s seconds when Retry-After parses as an integer s > 0, and
\* backoff(n, minBackoff, maxBackoff) otherwise.
C7_RetryDelay ==
    (pc = "sleep" /\ res.err = "nil") =>
        sleepDur = IF Atoi(res.retryAfter).ok /\ Atoi(res.retryAfter).val > 0
                   THEN Atoi(res.retryAfter).val * Second
                   ELSE backoff(attempt, minBackoff, maxBackoff, RandNum(lcg))

-----------------------------------------------------------------------------
(* backoff on its own: the delays of one call whose attempts all fail, for *)
(* attempt indices up to and beyond the width of time.Duration             *)

MaxAttempt == DurBits + 2

BackoffInputs ==
    { <<DefaultMinBackoff, DefaultMaxBackoff>>, <<1, 1>>, <<2, 3>>, <<3, 50>>,
      <<5, 5>>, <<7, 100>> }

BackoffSeeds == {0, 1, 4321, 9999}

InitBackoff ==
    /\ \E p \in BackoffInputs : bArgs = <<0, p[1], p[2]>>
    /\ bOut = NoOut
    /\ rOut = NoRand
    /\ uArg = <<>>
    /\ lcg \in BackoffSeeds
    /\ ClientIdle /\ CallIdle /\ CtxIdle /\ RaceIdle /\ OpIdle /\ BodyIdle
    /\ WireIdle

\* sleep := backoff(attempt, c.minBackoff, c.maxBackoff); attempt++
BackoffCall ==
    /\ bArgs[1] <= MaxAttempt
    /\ lcg' = LcgNext(lcg)
    /\ bOut' = [n |-> bArgs[1],
                d |-> backoff(bArgs[1], bArgs[2], bArgs[3], RandNum(lcg'))]
    /\ bArgs' = <<bArgs[1] + 1, bArgs[2], bArgs[3]>>
    /\ rOut' = [prev |-> lcg, num |-> RandNum(lcg')]
    /\ uArg' = uArg
    /\ UNCHANGED <<clientVars, callVars, ctxVars, raceVars, opVars, bodyVars,
                 wireVars>>

NextBackoff == BackoffCall

SpecBackoff == InitBackoff /\ [][NextBackoff]_vars

\* C8: for every attempt index n and 0 < min <= max, the delay backoff
\* returns lies in [0.8*base, 1.2*base] with base the smaller of min*2^n and
\* max (up to the truncation of the product to a whole duration unit); it is
\* never negative and never above 1.2*max.
C8_BackoffInRange ==
    bOut.n >= 0 =>
        LET base == MinOf(bArgs[2] * Pow2(bOut.n), bArgs[3])
        IN /\ 10 * (bOut.d + 1) > 8 * base
           /\ 10 * bOut.d <= 12 * base
           /\ bOut.d >= 0
           /\ 10 * bOut.d <= 12 * bArgs[3]

-----------------------------------------------------------------------------
(* NewClient and its options *)

\* the client fields WithRetry's closure leaves, applied to c
WithRetry(c, mr, mn, mx) ==
    LET c1 == IF mr >= 0 THEN [c EXCEPT !.maxRetries = mr] ELSE c
        c2 == IF mn > 0 THEN [c1 EXCEPT !.minBackoff = mn] ELSE c1
    IN IF mx >= c2.minBackoff THEN [c2 EXCEPT !.maxBackoff = mx] ELSE c2

RECURSIVE TrimRight(_, _)
\* strings.TrimRight(s, cutset) for a one-character cutset
TrimRight(s, c) ==
    IF s # <<>> /\ s[Len(s)] = c THEN TrimRight(SubSeq(s, 1, Len(s) - 1), c) ELSE s

WithBaseURLTrimSuffix(u) ==
    IF u # <<>> /\ u[Len(u)] = "/" THEN SubSeq(u, 1, Len(u) - 1) ELSE u

\* the baseURL WithBaseURL's closure stores
WithBaseURL(u) == TrimRight(u, "/")

URLArgs == { <<>>, <<"/">>, <<"x">>, <<"x", "/">>, <<"x", "/", "/">>, <<"x", "/", "y">> }

RetryCounts == {0 - 1, 0, 5}
MinArgs == {0 - 5, 0, 2, 100}
MaxArgs == {0 - 5, 0, 3, 80, 200}

\* c := &Client{...} with the defaults, before the options run
InitClient ==
    /\ apiKey \in {"", "k"}
    /\ baseURL = defaultBaseURL
    /\ ua = defaultUA
    /\ httpClient = "default"
    /\ maxRetries = DefaultMaxRetries
    /\ minBackoff = DefaultMinBackoff
    /\ maxBackoff = DefaultMaxBackoff
    /\ optsApplied = 0
    /\ lcg = 1
    /\ CallIdle /\ CtxIdle /\ PureIdle /\ RaceIdle /\ OpIdle /\ BodyIdle
    /\ WireIdle

\* for _, o := range opts { o(c) } with o a WithRetry option
ApplyWithRetry ==
    /\ optsApplied < MaxOpts
    /\ \E mr \in RetryCounts, mn \in MinArgs, mx \in MaxArgs :
         LET c == WithRetry([maxRetries |-> maxRetries, minBackoff |-> minBackoff,
                             maxBackoff |-> maxBackoff], mr, mn, mx)
         IN /\ maxRetries' = c.maxRetries
            /\ minBackoff' = c.minBackoff
            /\ maxBackoff' = c.maxBackoff
    /\ optsApplied' = optsApplied + 1
    /\ UNCHANGED <<apiKey, baseURL, ua, httpClient>>
    /\ UNCHANGED <<callVars, ctxVars, lcg, pureVars, raceVars, opVars, bodyVars,
                 wireVars>>

\* o(c) with o a WithBaseURL option
ApplyWithBaseURL ==
    /\ optsApplied < MaxOpts
    /\ \E u \in URLArgs : baseURL' = WithBaseURL(u) /\ uArg' = u
    /\ optsApplied' = optsApplied + 1
    /\ UNCHANGED <<apiKey, ua, httpClient, maxRetries, minBackoff, maxBackoff>>
    /\ UNCHANGED <<callVars, ctxVars, lcg, bArgs, bOut, rOut, raceVars, opVars,
                 bodyVars, wireVars>>

\* o(c) with o a WithUserAgent option
ApplyWithUserAgent ==
    /\ optsApplied < MaxOpts
    /\ \E a \in {"ua/1.0", ""} : ua' = a
    /\ optsApplied' = optsApplied + 1
    /\ UNCHANGED <<apiKey, baseURL, httpClient, maxRetries, minBackoff, maxBackoff>>
    /\ UNCHANGED <<callVars, ctxVars, lcg, pureVars, raceVars, opVars, bodyVars,
                 wireVars>>

\* o(c) with o a WithHTTPClient option
ApplyWithHTTPClient ==
    /\ optsApplied < MaxOpts
    /\ httpClient' = "custom"
    /\ optsApplied' = optsApplied + 1
    /\ UNCHANGED <<apiKey, baseURL, ua, maxRetries, minBackoff, maxBackoff>>
    /\ UNCHANGED <<callVars, ctxVars, lcg, pureVars, raceVars, opVars, bodyVars,
                 wireVars>>

NextClient ==
    \/ ApplyWithRetry
    \/ ApplyWithBaseURL
    \/ ApplyWithUserAgent
    \/ ApplyWithHTTPClient

SpecClient == InitClient /\ [][NextClient]_vars

\* C9: whatever options NewClient applies, the client's retry policy has
\* maxRetries >= 0 and maxBackoff >= minBackoff.
C9_RetryPolicyValid == maxRetries >= 0 /\ maxBackoff >= minBackoff

-----------------------------------------------------------------------------
(* Concurrent Search calls reaching randFloat through backoff.  The update *)
(* lcg = lcg*a + c is a load and a store of the package variable with no   *)
(* lock; the return expression reads lcg again, from the register or from  *)
(* memory, whichever the build produced.                                   *)

Goroutines == {1, 2}

InitRace ==
    /\ lcg \in Seeds
    /\ seed0 = lcg
    /\ stores = 0
    /\ gpc = [g \in Goroutines |-> "idle"]
    /\ greg = [g \in Goroutines |-> 0]
    /\ gret = [g \in Goroutines |-> <<>>]
    /\ gcalls = [g \in Goroutines |-> 0]
    /\ ClientIdle /\ CallIdle /\ CtxIdle /\ PureIdle /\ OpIdle /\ BodyIdle
    /\ WireIdle

\* read lcg for the right-hand side
RandLoad(g) ==
    /\ gpc[g] = "idle"
    /\ gcalls[g] < MaxRandCalls
    /\ greg' = [greg EXCEPT ![g] = lcg]
    /\ gpc' = [gpc EXCEPT ![g] = "loaded"]
    /\ UNCHANGED <<lcg, gret, gcalls, seed0, stores>>
    /\ UNCHANGED <<clientVars, callVars, ctxVars, pureVars, opVars, bodyVars,
                 wireVars>>

\* write lcg
RandStore(g) ==
    /\ gpc[g] = "loaded"
    /\ lcg' = LcgNext(greg[g])
    /\ greg' = [greg EXCEPT ![g] = lcg']
    /\ stores' = stores + 1
    /\ gpc' = [gpc EXCEPT ![g] = "stored"]
    /\ UNCHANGED <<gret, gcalls, seed0>>
    /\ UNCHANGED <<clientVars, callVars, ctxVars, pureVars, opVars, bodyVars,
                 wireVars>>

\* return float64(lcg%10000) / 10000.0
RandReturn(g) ==
    /\ gpc[g] = "stored"
    /\ \E v \in {greg[g], lcg} :
         gret' = [gret EXCEPT ![g] = Append(gret[g], RandNum(v))]
    /\ gcalls' = [gcalls EXCEPT ![g] = gcalls[g] + 1]
    /\ gpc' = [gpc EXCEPT ![g] = "idle"]
    /\ UNCHANGED <<lcg, greg, seed0, stores>>
    /\ UNCHANGED <<clientVars, callVars, ctxVars, pureVars, opVars, bodyVars,
                 wireVars>>

NextRace == \E g \in Goroutines : RandLoad(g) \/ RandStore(g) \/ RandReturn(g)

SpecRace == InitRace /\ [][NextRace]_vars

RECURSIVE LcgIter(_, _)
LcgIter(x, k) == IF k = 0 THEN x ELSE LcgIter(LcgNext(x), k - 1)

\* C10: concurrent Search calls never lose an update of shared state: after
\* k updates of the jitter generator its state is the k-th successor of the
\* seed, under every interleaving.
C10_NoLostUpdate == lcg = LcgIter(seed0, stores)

-----------------------------------------------------------------------------
(* Terminal statuses and error bodies of Search *)

\* a status outside [200,300) that is neither 429 nor 5xx
TerminalStatus(x) ==
    /\ ~TransportError(x)
    /\ (x < 200 \/ x >= 300)
    /\ ~RetryableStatus(x)

\* Search has returned on a non-2xx response other than 401 and 403
ReturnedOnErrorBody ==
    /\ op = "Search"
    /\ pc = "done"
    /\ hist # <<>>
    /\ ~TransportError(Last(hist))
    /\ (Last(hist) < 200 \/ Last(hist) >= 300)
    /\ Last(hist) \notin {401, 403}

\* the non-empty messages of a body that is a JSON object, whatever its size
ObjectMessages(b) ==
    IF ValidJSONObject(b)
    THEN { b[i].s : i \in { j \in 1..Len(b) : b[j].k = "message" /\ b[j].s # "" } }
    ELSE {}

\* the status members of a JSON object body
ObjectStatuses(b) ==
    IF ValidJSONObject(b)
    THEN { b[i].n : i \in { j \in 1..Len(b) : b[j].k = "status" } }
    ELSE {}

\* C11: a response whose status is outside [200,300) and is neither 429 nor
\* 5xx ends the call at once: Search returns an error with an empty
\* payload, no sleep is started for it and no further attempt is sent,
\* however many retries remain.
C11_TerminalStatusNotRetried ==
    (op = "Search" /\ hist # <<>> /\ TerminalStatus(Last(hist))) =>
        /\ pc = "done"
        /\ ret.err \notin {"nil", "none"}
        /\ ret.raw = <<>>
        /\ calls = Len(hist)
        /\ sleeps = Len(hist) - 1

C11_Witness ==
    /\ pc = "done"
    /\ maxRetries = 2
    /\ hist = <<422>>
    /\ calls = 1
    /\ sleeps = 0
    /\ ret.err = "APIError"

\* C12 as stated: for every terminal non-2xx response with HTTP status s
\* (not 401/403) whose body is a JSON error object with a non-empty message
\* m, Search returns a *APIError with Message m and Status s.
C12_StatusIsHTTPStatus ==
    (ReturnedOnErrorBody /\ ObjectMessages(res.body) # {}) =>
        /\ ret.err = "APIError"
        /\ ret.message \in ObjectMessages(res.body)
        /\ ret.status = Last(hist)

\* C12 amended: for every terminal non-2xx response with HTTP status s (not
\* 401/403) whose body lies within the read limit and is a JSON error
\* object with a non-empty message m, Search returns a *APIError with
\* Message m, and with Status the body's status member when it has one and
\* s when it has none.
C12_StructuredError ==
    (ReturnedOnErrorBody /\ Len(res.body) <= ErrBodyLimit
       /\ ObjectMessages(res.body) # {}) =>
        /\ ret.err = "APIError"
        /\ ret.message \in ObjectMessages(res.body)
        /\ ret.status \in (IF ObjectStatuses(res.body) = {}
                            THEN {Last(hist)} ELSE ObjectStatuses(res.body))
        /\ ret.raw = <<>>

C12_Witness ==
    /\ pc = "done"
    /\ hist = <<422>>
    /\ res.body = <<LB, StatusField(500), MsgField("boom"), RB>>
    /\ ret.err = "APIError"
    /\ ret.message = "boom"
    /\ ret.status = 500

\* C13: a terminal non-2xx response (not 401/403) whose body is empty, is
\* not valid JSON, or is a JSON object without a non-empty message yields
\* the generic error carrying the HTTP status and never a *APIError; a
\* *APIError always carries a non-empty message.
C13_GenericError ==
    /\ (ReturnedOnErrorBody /\ ObjectMessages(res.body) = {}) =>
          ret = Ret("HTTPStatus", Last(hist), "", "", <<>>)
    /\ (op = "Search" /\ ret.err = "APIError") => ret.message # ""

C13_Witness ==
    /\ pc = "done"
    /\ hist = <<422>>
    /\ res.body = <<LB, MsgField(""), RB>>
    /\ ret = Ret("HTTPStatus", 422, "", "", <<>>)

\* C14: when c.http.Do fails on attempt n, then with n < maxRetries Search
\* sleeps backoff(n) and, when the sleep ends, sends attempt n+1; with
\* n = maxRetries it returns the transport's error itself, with an empty
\* payload.
C14_TransportFailure ==
    [][ /\ (op = "Search" /\ Len(hist') = Len(hist) + 1
              /\ TransportError(Last(hist'))) =>
             IF attempt < maxRetries
             THEN /\ pc' = "sleep"
                  /\ sleeps' = sleeps + 1
                  /\ sleepDur' = backoff(attempt, minBackoff, maxBackoff,
                                         RandNum(lcg'))
                  /\ ret' = NoRet
             ELSE /\ attempt = maxRetries
                  /\ pc' = "done"
                  /\ ret'.err = res'.err
                  /\ ret'.err \in {"net", "ctx"}
                  /\ ret' = RetErr(ret'.err)
        /\ (op = "Search" /\ pc = "sleep" /\ TransportError(Last(hist))
              /\ pc' # pc) =>
             /\ pc' = "inflight"
             /\ attempt' = attempt + 1
             /\ calls' = calls + 1 ]_vars

C14_Witness ==
    /\ pc = "done"
    /\ maxRetries = 2
    /\ hist = <<NetErr, NetErr, NetErr>>
    /\ sleeps = 2
    /\ calls = 3
    /\ ret = RetErr("net")

-----------------------------------------------------------------------------
(* Client.Fetch, Client.GetBalance and SearchResponse.DecodeInto *)

FetchURLs == {"", "https://x"}

FetchPrecheckKeyOnly(key, url) == IF key = "" THEN "ErrAPIKeyEmpty" ELSE "nil"

\* types.go 300-305: the checks Fetch makes before it builds a request
FetchPrecheck(key, url) ==
    IF key = "" THEN "ErrAPIKeyEmpty"
    ELSE IF url = "" THEN "ErrFetchURLEmpty"
    ELSE "nil"

FetchErrorDecodesAuth(status, body) ==
    LET apiErr == DecodeAPIError(status, body)
    IN IF apiErr.Message # ""
       THEN Ret("APIError", apiErr.Status, apiErr.Message, apiErr.Details, <<>>)
       ELSE Ret("HTTPStatus", status, "", "", <<>>)

\* types.go 325-339: the result of Fetch for a status outside [200,300)
FetchError(status, body) ==
    IF status = StatusUnauthorized THEN RetErr("ErrUnauthorized")
    ELSE IF status = StatusForbidden THEN RetErr("ErrForbidden")
    ELSE LET apiErr == DecodeAPIError(status, body)
         IN IF apiErr.Message # ""
            THEN Ret("APIError", apiErr.Status, apiErr.Message, apiErr.Details, <<>>)
            ELSE Ret("HTTPStatus", status, "", "", <<>>)

\* types.go 371-385: the same for GetBalance
BalanceError(status, body) ==
    IF status = StatusUnauthorized THEN RetErr("ErrUnauthorized")
    ELSE IF status = StatusForbidden THEN RetErr("ErrForbidden")
    ELSE LET apiErr == DecodeAPIError(status, body)
         IN IF apiErr.Message # ""
            THEN Ret("APIError", apiErr.Status, apiErr.Message, apiErr.Details, <<>>)
            ELSE Ret("HTTPStatus", status, "", "", <<>>)

\* return out, nil
RetBalance(n) == [Ret("nil", 0, "", "", <<>>) EXCEPT !.balance = n]

\* the end of the first JSON value of the stream, 0 when it has none
FirstValueEnd(b) ==
    LET ends == { i \in 1..Len(b) : b[i] = RB }
    IN IF ends = {} THEN 0 ELSE CHOOSE i \in ends : \A j \in ends : i <= j

RECURSIVE BalanceOf(_, _)
BalanceOf(fs, n) ==
    IF fs = <<>> THEN n
    ELSE BalanceOf(Tail(fs), IF Head(fs).k = "balance" THEN Head(fs).n ELSE n)

\* types.go 386-390: json.NewDecoder(res.Body).Decode(&out) reads one JSON
\* value from the stream and stops there
DecodeBalance(r) ==
    LET i == FirstValueEnd(r.body)
    IN IF i >= 2 /\ r.body[1] = LB
          /\ \A j \in 2..(i - 1) : r.body[j].k \in FieldKeys
       THEN RetBalance(BalanceOf(SubSeq(r.body, 2, i - 1), 0))
       ELSE RetErr(IF r.readFail THEN "read" ELSE "decode")

\* types.go 299-322: the checks, then the single c.http.Do
FetchStart ==
    /\ op = "Fetch"
    /\ pc = "start"
    /\ IF FetchPrecheck(apiKey, fetchURL) # "nil"
       THEN /\ pc' = "done"
            /\ ret' = RetErr(FetchPrecheck(apiKey, fetchURL))
            /\ calls' = calls
            /\ sent' = sent
       ELSE /\ pc' = "inflight"
            /\ calls' = calls + 1
            /\ ret' = ret
            /\ sent' = Append(sent, FetchRequestOf)
    /\ UNCHANGED <<attempt, sleeps, sleepDur, res, hist>>
    /\ UNCHANGED <<clientVars, ctxVars, lcg, pureVars, raceVars, opVars, bodyVars,
                 inspected>>

\* types.go 319-322: c.http.Do returns an error
FetchDoFails ==
    /\ op = "Fetch"
    /\ pc = "inflight"
    /\ LET e == IF ctxDone THEN "ctx" ELSE "net"
       IN /\ res' = ErrRes(e)
          /\ hist' = Append(hist, IF ctxDone THEN CtxErr ELSE NetErr)
          /\ ret' = RetErr(e)
    /\ pc' = "done"
    /\ closed' = deferred
    /\ UNCHANGED <<attempt, calls, sleeps, sleepDur, opened, deferred>>
    /\ UNCHANGED <<clientVars, ctxVars, lcg, pureVars, raceVars, opVars,
                 wireVars>>

\* types.go 323-344: c.http.Do returns a response
FetchDoResponds ==
    /\ op = "Fetch"
    /\ pc = "inflight"
    /\ ~ctxDone
    /\ \E r \in Responses :
         /\ hist' = Append(hist, r.status)
         /\ res' = r
         /\ inspected' = IF AuthFirstInspects(r.status)
                          THEN Append(inspected, r.status) ELSE inspected
         /\ ret' = IF IsSuccess(r.status) THEN SuccessResult(r)
                   ELSE FetchError(r.status, r.body)
    /\ opened' = opened + 1
    /\ deferred' = DeferClose(deferred, FALSE)
    /\ closed' = deferred'
    /\ pc' = "done"
    /\ UNCHANGED <<attempt, calls, sleeps, sleepDur>>
    /\ UNCHANGED <<clientVars, ctxVars, lcg, pureVars, raceVars, opVars,
                 sent>>

\* types.go 353-368: the key check, then the single c.http.Do
BalanceStart ==
    /\ op = "GetBalance"
    /\ pc = "start"
    /\ IF apiKey = ""
       THEN /\ pc' = "done"
            /\ ret' = RetErr("ErrAPIKeyEmpty")
            /\ calls' = calls
            /\ sent' = sent
       ELSE /\ pc' = "inflight"
            /\ calls' = calls + 1
            /\ ret' = ret
            /\ sent' = Append(sent, BalanceRequestOf)
    /\ UNCHANGED <<attempt, sleeps, sleepDur, res, hist>>
    /\ UNCHANGED <<clientVars, ctxVars, lcg, pureVars, raceVars, opVars, bodyVars,
                 inspected>>

\* types.go 365-368: c.http.Do returns an error
BalanceDoFails ==
    /\ op = "GetBalance"
    /\ pc = "inflight"
    /\ LET e == IF ctxDone THEN "ctx" ELSE "net"
       IN /\ res' = ErrRes(e)
          /\ hist' = Append(hist, IF ctxDone THEN CtxErr ELSE NetErr)
          /\ ret' = RetErr(e)
    /\ pc' = "done"
    /\ closed' = deferred
    /\ UNCHANGED <<attempt, calls, sleeps, sleepDur, opened, deferred>>
    /\ UNCHANGED <<clientVars, ctxVars, lcg, pureVars, raceVars, opVars,
                 wireVars>>

\* types.go 369-390: c.http.Do returns a response
BalanceDoResponds ==
    /\ op = "GetBalance"
    /\ pc = "inflight"
    /\ ~ctxDone
    /\ \E r \in Responses :
         /\ hist' = Append(hist, r.status)
         /\ res' = r
         /\ inspected' = IF AuthFirstInspects(r.status)
                          THEN Append(inspected, r.status) ELSE inspected
         /\ ret' = IF IsSuccess(r.status) THEN DecodeBalance(r)
                   ELSE BalanceError(r.status, r.body)
    /\ opened' = opened + 1
    /\ deferred' = DeferClose(deferred, FALSE)
    /\ closed' = deferred'
    /\ pc' = "done"
    /\ UNCHANGED <<attempt, calls, sleeps, sleepDur>>
    /\ UNCHANGED <<clientVars, ctxVars, lcg, pureVars, raceVars, opVars,
                 sent>>

\* types.go 169-172 (and 263 in SearchStructured): json.Unmarshal of the Raw
\* that Search or Fetch returned with a nil error
DecodeInto ==
    /\ op \in {"Search", "Fetch"}
    /\ pc = "done"
    /\ ret.err = "nil"
    /\ decoded = "none"
    /\ decoded' = IF ValidJSONObject(ret.raw) THEN "ok" ELSE "error"
    /\ UNCHANGED <<op, fetchURL>>
    /\ UNCHANGED <<clientVars, callVars, ctxVars, lcg, pureVars, raceVars, bodyVars,
                 wireVars>>

\* a client as NewClient returns it and one call of one of its methods
InitOps ==
    /\ apiKey \in {"", "test-key"}
    /\ baseURL = defaultBaseURL
    /\ ua = defaultUA
    /\ httpClient = "default"
    /\ maxRetries \in 0..MaxRetriesBound
    /\ \E p \in BackoffPairs : minBackoff = p[1] /\ maxBackoff = p[2]
    /\ optsApplied = 0
    /\ lcg \in Seeds
    /\ op \in {"Search", "Fetch", "GetBalance"}
    /\ fetchURL \in (IF op = "Fetch" THEN FetchURLs ELSE {""})
    /\ decoded = "none"
    /\ CallIdle /\ CtxIdle /\ PureIdle /\ RaceIdle /\ BodyIdle /\ WireIdle

NextOps ==
    \/ SearchStart
    \/ DoFails
    \/ DoResponds
    \/ SleepReturns
    \/ FetchStart
    \/ FetchDoFails
    \/ FetchDoResponds
    \/ BalanceStart
    \/ BalanceDoFails
    \/ BalanceDoResponds
    \/ DecodeInto
    \/ ContextDone

SpecOps == InitOps /\ [][NextOps]_vars

\* the last response had a status in [200,300) and its body was read whole
ReturnedOn2xx ==
    /\ pc = "done"
    /\ hist # <<>>
    /\ Last(hist) >= 200 /\ Last(hist) < 300
    /\ ~res.readFail

\* C15: Search, Fetch and GetBalance on a client with an empty API key, and
\* Fetch with an empty request URL, return an error without any transport
\* invocation: nothing is sent, received, slept or retried.
C15_NoTransportOnBadConfig ==
    (apiKey = "" \/ (op = "Fetch" /\ fetchURL = "")) =>
        /\ calls = 0
        /\ hist = <<>>
        /\ sleeps = 0
        /\ opened = 0
        /\ pc \in {"start", "done"}
        /\ pc = "done" =>
             /\ ret.err = (IF apiKey = "" THEN "ErrAPIKeyEmpty"
                                          ELSE "ErrFetchURLEmpty")
             /\ ret.raw = <<>>
             /\ ret.balance = 0

C15_Witness ==
    /\ op = "Fetch"
    /\ apiKey = "test-key"
    /\ fetchURL = ""
    /\ pc = "done"
    /\ ret.err = "ErrFetchURLEmpty"
    /\ calls = 0

C17_BodiesClosed ==
    /\ opened = Cardinality({ i \in 1..Len(hist) : ~TransportError(hist[i]) })
    /\ pc = "done" => closed = opened

C17_Witness ==
    /\ op = "Search"
    /\ pc = "done"
    /\ hist = <<429, 502, 200>>
    /\ opened = 3
    /\ closed = 3

\* C18: Fetch and GetBalance retry a 429 or 5xx response while retries
\* remain: after such a response to attempt n < maxRetries the call has
\* not returned.
C18_AllOperationsRetry ==
    (op \in {"Fetch", "GetBalance"} /\ hist # <<>>
       /\ RetryableStatus(Last(hist)) /\ Len(hist) <= maxRetries) =>
        pc # "done"

\* C19: Fetch and GetBalance map the response they received to their
\* result: 401 to ErrUnauthorized, 403 to ErrForbidden, any other non-2xx
\* status to a *APIError when the body within the read limit carries a
\* non-empty message and to the generic HTTP-status error otherwise; with
\* every error the payload is the zero value.
C19_SingleShotErrors ==
    (op \in {"Fetch", "GetBalance"} /\ pc = "done") =>
        /\ ret.err # "nil" => ret.raw = <<>> /\ ret.balance = 0
        /\ (hist # <<>> /\ ~TransportError(Last(hist))
              /\ (Last(hist) < 200 \/ Last(hist) >= 300)) =>
             CASE Last(hist) = 401 -> ret = RetErr("ErrUnauthorized")
               [] Last(hist) = 403 -> ret = RetErr("ErrForbidden")
               [] OTHER ->
                    IF BodyMessages(res.body) # {}
                    THEN /\ ret.err = "APIError"
                         /\ ret.message \in BodyMessages(res.body)
                    ELSE ret = Ret("HTTPStatus", Last(hist), "", "", <<>>)

C19_Witness ==
    /\ op = "GetBalance"
    /\ pc = "done"
    /\ hist = <<502>>
    /\ ret.err = "APIError"
    /\ ret.message = "boom"
    /\ ret.balance = 0

\* C20: Search returns a nil error and the raw payload for every 2xx
\* response, valid JSON or not, and the 2xx response is the last one of the
\* call; a payload that does not decode is reported by the decoding step
\* alone, which leaves the result of Search as it was.
C20_DecodeIsSeparate ==
    /\ (op = "Search" /\ ReturnedOn2xx) =>
          /\ ret.err = "nil"
          /\ ret.raw = res.body
          /\ calls = Len(hist)
          /\ decoded = "error" <=> ~ValidJSONObject(res.body) /\ decoded # "none"
    /\ op = "Search" =>
          \A i \in 1..(Len(hist) - 1) : ~(hist[i] >= 200 /\ hist[i] < 300)
    /\ decoded # "none" => pc = "done" /\ ret.err = "nil"

C20_Witness ==
    /\ op = "Search"
    /\ pc = "done"
    /\ hist = <<200>>
    /\ res.body = <<Junk>>
    /\ ret.err = "nil"
    /\ ret.raw = <<Junk>>
    /\ decoded = "error"

-----------------------------------------------------------------------------
(* randFloat from every state of the generator *)

\* lcg is seeded from the clock: any value of the word
InitRand ==
    /\ lcg \in 0..(LcgMod - 1)
    /\ ClientIdle /\ CallIdle /\ CtxIdle /\ PureIdle /\ RaceIdle /\ OpIdle
    /\ BodyIdle /\ WireIdle

\* one call of randFloat
RandFloatCall ==
    /\ lcg' = LcgNext(lcg)
    /\ rOut' = [prev |-> lcg, num |-> RandNum(lcg')]
    /\ UNCHANGED <<bArgs, bOut, uArg>>
    /\ UNCHANGED <<clientVars, callVars, ctxVars, raceVars, opVars, bodyVars,
                 wireVars>>

NextRand == RandFloatCall

SpecRand == InitRand /\ [][NextRand]_vars

\* C21: from every state of the generator, wrapped or not, randFloat returns
\* a value in [0,1) and the multiplier 0.8 + 0.4*randFloat() lies in
\* [0.8, 1.2].
C21_JitterInRange ==
    rOut # NoRand =>
        /\ rOut.num >= 0
        /\ rOut.num < RandMod
        /\ JitterNum(rOut.num) >= 8 * RandMod
        /\ JitterNum(rOut.num) <= 12 * RandMod

\* the update overflowed the word and the result is the largest one
C21_Witness ==
    /\ rOut # NoRand
    /\ rOut.prev * (LcgMul % LcgMod) + (LcgInc % LcgMod) >= LcgMod
    /\ rOut.num = RandMod - 1

-----------------------------------------------------------------------------
(* The stored base URL *)

\* C22: after WithBaseURL(u) the stored base URL is u without its trailing
\* slashes, all of them, and a request URL built from it has exactly one
\* '/' between the base URL and the endpoint name.
C22_BaseURLTrimmed ==
    /\ baseURL = <<>> \/ baseURL[Len(baseURL)] # "/"
    /\ baseURL # defaultBaseURL =>
          /\ Len(baseURL) <= Len(uArg)
          /\ baseURL = SubSeq(uArg, 1, Len(baseURL))
          /\ \A i \in (Len(baseURL) + 1)..Len(uArg) : uArg[i] = "/"
    /\ LET url == RequestURL(baseURL, SearchPath)
           k == Len(baseURL)
       IN /\ Len(url) = k + 2
          /\ url[k + 1] = "/"
          /\ url[k + 2] # "/"
          /\ k >= 1 => url[k] # "/"

C22_Witness ==
    /\ uArg = <<"x", "/", "/">>
    /\ baseURL = <<"x">>
    /\ RequestURL(baseURL, SearchPath) = <<"x", "/", "s">>

-----------------------------------------------------------------------------
(* The order of attempts and delays within one Search call *)

\* C23: the first attempt is sent from the start with no delay before it;
\* every later attempt n+1 is sent from the delay that followed attempt n,
\* which ended in a retryable failure with n < maxRetries; each delay is
\* begun by such an attempt and computed for its index; the step that
\* returns begins no delay, so a call of k attempts slept k-1 times.
C23_AttemptOrder ==
    [][ /\ calls' # calls =>
             /\ calls' = calls + 1
             /\ pc' = "inflight"
             /\ IF calls = 0
                THEN pc = "start" /\ attempt' = 0 /\ sleeps = 0
                ELSE /\ pc = "sleep"
                     /\ attempt' = attempt + 1
                     /\ Len(hist) = calls
                     /\ RetryableFailure(Last(hist))
                     /\ attempt < maxRetries
                     /\ sleeps = calls
        /\ sleeps' # sleeps =>
             /\ sleeps' = sleeps + 1
             /\ sleeps = attempt
             /\ pc = "inflight" /\ pc' = "sleep"
             /\ Len(hist') = calls
             /\ RetryableFailure(Last(hist'))
             /\ attempt < maxRetries
             /\ sleepDur' = retryDelay(res'.retryAfter, attempt, minBackoff,
                                       maxBackoff, RandNum(lcg'))
        /\ (pc # "done" /\ pc' = "done") =>
             /\ sleeps' = sleeps
             /\ calls' = calls
             /\ calls >= 1 => sleeps = calls - 1 ]_vars

C23_Witness ==
    /\ pc = "done"
    /\ hist = <<502, NetErr, 200>>
    /\ attempt = 2
    /\ calls = 3
    /\ sleeps = 2
    /\ ret.err = "nil"

-----------------------------------------------------------------------------
(* What the result of Search is made of *)

\* the details members of a JSON object body
ObjectDetails(b) ==
    IF ValidJSONObject(b)
    THEN { b[i].s : i \in { j \in 1..Len(b) : b[j].k = "details" } }
    ELSE {}

\* C24: what Search returns is made of its final attempt alone: the
\* transport's error of that attempt, or the payload of that response, or an
\* error whose status, message and details are the final response's status
\* and members of the final response's body.
C24_FinalAttemptOnly ==
    (op = "Search" /\ pc = "done" /\ calls >= 1) =>
        /\ Len(hist) = calls
        /\ IF TransportError(Last(hist))
           THEN ret = RetErr(res.err)
           ELSE /\ res.status = Last(hist)
                /\ IF res.status >= 200 /\ res.status < 300
                   THEN IF res.readFail THEN ret = RetErr("read")
                        ELSE ret = Ret("nil", 0, "", "", res.body)
                   ELSE /\ ret.raw = <<>>
                        /\ ret.err \in {"ErrUnauthorized", "ErrForbidden",
                                        "APIError", "HTTPStatus"}
                        /\ ret.err = "ErrUnauthorized" =>
                             res.status = 401 /\ ret = RetErr("ErrUnauthorized")
                        /\ ret.err = "ErrForbidden" =>
                             res.status = 403 /\ ret = RetErr("ErrForbidden")
                        /\ ret.err = "HTTPStatus" =>
                             ret = Ret("HTTPStatus", res.status, "", "", <<>>)
                        /\ ret.err = "APIError" =>
                             /\ ret.message \in ObjectMessages(res.body)
                             /\ ret.status \in {res.status} \cup ObjectStatuses(res.body)
                             /\ ret.details \in {""} \cup ObjectDetails(res.body)

C24_Witness ==
    /\ pc = "done"
    /\ hist = <<429, 502, 422>>
    /\ res.body = <<LB, MsgField("bad param"), RB>>
    /\ ret = Ret("APIError", 422, "bad param", "", <<>>)

-----------------------------------------------------------------------------
(* Which response bodies are read *)

\* C25: no operation reads the body of a 401 or 403 response, which it
\* answers with the sentinel error at once; an error body is read only for
\* the terminal non-2xx outcome of the call, so at most once and for the
\* response the call returns on.
C25_AuthBeforeBody ==
    /\ \A i \in 1..Len(inspected) : inspected[i] \notin {401, 403}
    /\ Len(inspected) <= 1
    /\ inspected # <<>> => pc = "done" /\ inspected[1] = Last(hist)

-----------------------------------------------------------------------------
(* The requests of one Search call *)

\* C27: every attempt of a Search call hands the transport the same request:
\* POST to the base URL followed by "/search", with the bearer
\* authorization of the API key, Content-Type application/json, the
\* client's User-Agent and a body reader holding the whole JSON text of the
\* request, unread; and no step of the call changes the client.
C27_SameRequest ==
    [][ /\ clientVars' = clientVars
        /\ Len(sent') = calls'
        /\ \A i \in 1..Len(sent') :
             /\ sent'[i].method = "POST"
             /\ sent'[i].url = baseURL \o <<"/", "s">>
             /\ sent'[i].auth = <<"Bearer ", apiKey>>
             /\ sent'[i].ctype = "application/json"
             /\ sent'[i].ua = ua
             /\ sent'[i].body.data = <<LB, OtherField, RB>>
             /\ sent'[i].body.off = 0
             /\ sent'[i] = sent'[1] ]_vars

C27_Witness ==
    /\ pc = "done"
    /\ hist = <<502, NetErr, 200>>
    /\ Len(sent) = 3
    /\ sent[3] = sent[1]
    /\ sent[3].body = [data |-> SearchBody, off |-> 0]
    /\ ret.err = "nil"
    /\ maxRetries = 2

-----------------------------------------------------------------------------
(* Termination of a Search call *)

\* a client with the default backoffs and one Search call on it
InitLive ==
    /\ apiKey \in {"", "test-key"}
    /\ baseURL = defaultBaseURL
    /\ ua = defaultUA
    /\ httpClient = "default"
    /\ maxRetries \in 0..MaxLiveRetries
    /\ minBackoff = DefaultMinBackoff
    /\ maxBackoff = DefaultMaxBackoff
    /\ optsApplied = 0
    /\ lcg = 1
    /\ CallIdle /\ CtxIdle /\ PureIdle /\ RaceIdle /\ OpIdle /\ BodyIdle
    /\ WireIdle

\* the goroutine running Search takes its steps; every c.http.Do returns,
\* with a response or with an error; every time.Sleep returns
SpecLive ==
    /\ InitLive
    /\ [][Next]_vars
    /\ WF_vars(SearchStart)
    /\ WF_vars(DoFails \/ DoResponds)
    /\ WF_vars(SleepReturns)

\* C26: every Search call returns: it reaches the state in which it has
\* handed back a success or an error and stays there, whatever maxRetries
\* is and whatever the transport answers.
C26_SearchReturns == <>[](pc = "done" /\ ret.err # "none")

C26_Witness ==
    /\ pc = "done"
    /\ maxRetries = MaxLiveRetries
    /\ Len(hist) = MaxLiveRetries + 1
    /\ hist[1] = 429
    /\ Last(hist) = CtxErr
    /\ ret = RetErr("ctx")

=============================================================================
